---- MODULE Spec2Model ----
(***************************************************************************)
(* A model of python-cachetclient: the transport class CachetClient        *)
(* (cachetclient/client.py) and the resource classes built on it           *)
(* (cachetclient/cachet.py).  One object is alive at a time; every public  *)
(* method call is one atomic step that records its outcome and the HTTP    *)
(* exchanges it performed.                                                 *)
(***************************************************************************)
EXTENDS Integers, Sequences, FiniteSets, TLC

VARIABLES self, call, http

vars == <<self, call, http>>

\* Identifiers passed by callers range over 0..MaxId.
MaxId == 1

(***************************************************************************)
(* Python values.  Every value is a record of the same shape so that       *)
(* values of different Python types can sit in one set.                    *)
(*   NoneType, int, str, bool : scalars                                    *)
(*   dict : items is a sequence of <<key, value>> pairs                    *)
(*   list : items is a sequence of values                                  *)
(***************************************************************************)
PyNone == [t |-> "NoneType", n |-> 0, s |-> "", b |-> FALSE, items |-> <<>>]

PyInt(i) == [t |-> "int", n |-> i, s |-> "", b |-> FALSE, items |-> <<>>]

PyStr(x) == [t |-> "str", n |-> 0, s |-> x, b |-> FALSE, items |-> <<>>]

PyBool(x) == [t |-> "bool", n |-> 0, s |-> "", b |-> x, items |-> <<>>]

PyDict(pairs) == [t |-> "dict", n |-> 0, s |-> "", b |-> FALSE, items |-> pairs]

PyList(elems) == [t |-> "list", n |-> 0, s |-> "", b |-> FALSE, items |-> elems]

IsNone(v) == v.t = "NoneType"

\* An empty keyword-argument dictionary.
EmptyDict == [k \in {} |-> PyNone]

DigitStr == <<"0", "1", "2", "3", "4", "5", "6", "7", "8", "9">>

RECURSIVE IntStr(_)
\* str(i) for an int: decimal digits, most significant first.
IntStr(i) ==
    IF i < 0 THEN "-" \o IntStr(0 - i)
    ELSE IF i < 10 THEN DigitStr[i + 1]
    ELSE IntStr(i \div 10) \o DigitStr[(i % 10) + 1]

\* '%s' % v for a scalar.
PyFormat(v) ==
    CASE v.t = "NoneType" -> "None"
      [] v.t = "int"      -> IntStr(v.n)
      [] v.t = "str"      -> v.s
      [] v.t = "bool"     -> IF v.b THEN "True" ELSE "False"

RECURSIVE Spaces(_)
Spaces(k) == IF k = 0 THEN "" ELSE " " \o Spaces(k - 1)

\* json.dumps of a scalar.
JsonScalar(v) ==
    CASE v.t = "NoneType" -> "null"
      [] v.t = "int"      -> IntStr(v.n)
      [] v.t = "str"      -> "\"" \o v.s \o "\""
      [] v.t = "bool"     -> IF v.b THEN "true" ELSE "false"

RECURSIVE json_dumps(_, _, _)
RECURSIVE JsonMembers(_, _, _, _, _)
\* The members of a container from position i on, one per line.
JsonMembers(isDict, items, i, indent, level) ==
    IF i > Len(items) THEN ""
    ELSE LET head == IF isDict
                     THEN "\"" \o items[i][1] \o "\": "
                              \o json_dumps(items[i][2], indent, level)
                     ELSE json_dumps(items[i], indent, level)
             sep  == IF i < Len(items) THEN ",\n" ELSE "\n"
         IN  Spaces(indent * level) \o head \o sep
                 \o JsonMembers(isDict, items, i + 1, indent, level)

\* json.dumps(v, indent=indent), v nested at depth level.
json_dumps(v, indent, level) ==
    CASE v.t = "dict" ->
            IF Len(v.items) = 0 THEN "{}"
            ELSE "{\n" \o JsonMembers(TRUE, v.items, 1, indent, level + 1)
                       \o Spaces(indent * level) \o "}"
      [] v.t = "list" ->
            IF Len(v.items) = 0 THEN "[]"
            ELSE "[\n" \o JsonMembers(FALSE, v.items, 1, indent, level + 1)
                       \o Spaces(indent * level) \o "]"
      [] OTHER -> JsonScalar(v)

\* json.dumps(kwargs['data']) of a keyword dictionary: a JSON object, given
\* as the map from member name to the JSON text of its value (the order of
\* the members in the text is the dictionary's iteration order).
EncodeData(d) == [k \in DOMAIN d |-> JsonScalar(d[k])]

(***************************************************************************)
(* Outcomes of a call and the remote side.                                 *)
(***************************************************************************)
Return(v) == [kind |-> "return", exc |-> "", msg |-> "", value |-> v, status |-> 0]

Raise(type, message) ==
    [kind |-> "raise", exc |-> type, msg |-> message, value |-> PyNone, status |-> 0]

\* requests' HTTPError raised by resp.raise_for_status(): it carries the
\* response, hence its status code and body.
HTTPError(resp) ==
    [kind |-> "raise", exc |-> "HTTPError", msg |-> resp.text, value |-> PyNone,
     status |-> resp.status_code]

\* The document the round-trip scenario echoes: {"data": {"id": 42, "name": "X"}}
EchoDoc ==
    PyDict(<< <<"data", PyDict(<< <<"id", PyInt(42)>>, <<"name", PyStr("X")>> >>)>> >>)

\* Response bodies: text, whether resp.json() decodes it, and the decoded value.
Bodies ==
    { [text |-> "", decodable |-> FALSE, value |-> PyNone],
      [text |-> "{\"data\":{\"id\":42,\"name\":\"X\"}}", decodable |-> TRUE,
       value |-> EchoDoc],
      [text |-> "[]", decodable |-> TRUE, value |-> PyList(<<>>)] }

StatusCodes == {200, 404}

Responses ==
    { [status_code |-> c, text |-> b.text, decodable |-> b.decodable, value |-> b.value] :
        c \in StatusCodes, b \in Bodies }

\* requests.Response.ok
ok(resp) == resp.status_code < 400

(***************************************************************************)
(* cachetclient/client.py                                                  *)
(***************************************************************************)
NoInstance ==
    [cls |-> "", user_agent |-> "", endpoint |-> PyNone, api_token |-> PyNone,
     timeout |-> PyNone, verify |-> PyNone]

\* dict.get(key, default)
DictGet(d, k, default) == IF k \in DOMAIN d THEN d[k] ELSE default

\* dict.setdefault that stores nothing.
SetDefault_Dropped(d, k, v) == d

\* dict.setdefault(key, value)
SetDefault(d, k, v) == IF k \in DOMAIN d THEN d ELSE (k :> v) @@ d

\* CachetClient.__init__ reading endpoint with kwargs.get('endpoint', None).
CachetClient__init___EndpointOptional(cls, kwargs) ==
    [outcome |-> Return(PyNone),
     obj |-> [cls |-> cls,
              user_agent |-> "python-cachetclient",
              endpoint |-> DictGet(kwargs, "endpoint", PyNone),
              api_token |-> DictGet(kwargs, "api_token", PyNone),
              timeout |-> DictGet(kwargs, "timeout", PyNone),
              verify |-> DictGet(kwargs, "verify", PyNone)]]

\* CachetClient.__init__: the new object, or the error raised.
CachetClient__init__(cls, kwargs) ==
    IF "endpoint" \notin DOMAIN kwargs
    THEN [outcome |-> Raise("KeyError", "Cachet API endpoint is required"),
          obj |-> NoInstance]
    ELSE [outcome |-> Return(PyNone),
          obj |-> [cls |-> cls,
                   user_agent |-> "python-cachetclient",
                   endpoint |-> kwargs["endpoint"],
                   api_token |-> DictGet(kwargs, "api_token", PyNone),
                   timeout |-> DictGet(kwargs, "timeout", PyNone),
                   verify |-> DictGet(kwargs, "verify", PyNone)]]

\* RequestHeaders testing "if self.api_token:" in place of "is not None".
RequestHeaders_Truthy(obj) ==
    LET std == [h \in {"User-Agent", "Accept", "Content-Type"} |->
                  CASE h = "User-Agent"   -> obj.user_agent
                    [] h = "Accept"       -> "application/json"
                    [] h = "Content-Type" -> "application/json"]
    IN  IF ~IsNone(obj.api_token) /\ obj.api_token.s # ""
        THEN ("X-Cachet-Token" :> obj.api_token.s) @@ std
        ELSE std

\* The headers _request sets on every request.
RequestHeaders(obj) ==
    LET std == [h \in {"User-Agent", "Accept", "Content-Type"} |->
                  CASE h = "User-Agent"   -> obj.user_agent
                    [] h = "Accept"       -> "application/json"
                    [] h = "Content-Type" -> "application/json"]
    IN  IF ~IsNone(obj.api_token)
        THEN ("X-Cachet-Token" :> obj.api_token.s) @@ std
        ELSE std

\* The keyword arguments _request hands to Session.request; kwargs is what
\* the verb helper was given (either nothing or data=<dict>).
RequestKwargs(obj, kwargs) ==
    LET k1 == IF ~IsNone(obj.timeout)
              THEN ("timeout" :> <<obj.timeout>>) @@ [k \in {} |-> <<>>]
              ELSE [k \in {} |-> <<>>]
        k2 == IF ~IsNone(obj.verify) THEN ("verify" :> <<obj.verify>>) @@ k1 ELSE k1
        k3 == ("headers" :> <<RequestHeaders(obj)>>) @@ k2
    IN  IF "data" \in DOMAIN kwargs
        THEN ("data" :> <<EncodeData(kwargs["data"])>>) @@ k3
        ELSE k3

\* _request without the try/except around resp.json().
_request_DecodeRaises(obj, url, method, kwargs, resp) ==
    LET exchange == [method |-> method, url |-> url,
                     kwargs |-> RequestKwargs(obj, kwargs), resp |-> resp]
    IN  IF ~ok(resp)
        THEN [raised |-> TRUE, exc |-> HTTPError(resp), body |-> PyNone,
              http |-> <<exchange>>, obj |-> obj]
        ELSE IF ~resp.decodable
        THEN [raised |-> TRUE, exc |-> Raise("ValueError", "No JSON object could be decoded"),
              body |-> PyNone, http |-> <<exchange>>, obj |-> obj]
        ELSE [raised |-> FALSE, exc |-> Return(PyNone), body |-> resp.value,
              http |-> <<exchange>>, obj |-> obj]

\* _request storing a default on the object: "if self.timeout is None:
\* self.timeout = 30" ahead of the request.
_request_StoresTimeout(obj, url, method, kwargs, resp) ==
    LET after    == [obj EXCEPT !.timeout = IF IsNone(@) THEN PyInt(30) ELSE @]
        exchange == [method |-> method, url |-> url,
                     kwargs |-> RequestKwargs(after, kwargs), resp |-> resp]
    IN  IF ~ok(resp)
        THEN [raised |-> TRUE, exc |-> HTTPError(resp), body |-> PyNone,
              http |-> <<exchange>>, obj |-> after]
        ELSE [raised |-> FALSE, exc |-> Return(PyNone),
              body |-> IF resp.decodable THEN resp.value ELSE PyNone,
              http |-> <<exchange>>, obj |-> after]

\* CachetClient._request: one exchange with the remote side, answered by resp.
\* obj is the object as the call leaves it: _request reads timeout, verify,
\* user_agent and api_token and assigns no attribute.
_request(obj, url, method, kwargs, resp) ==
    LET exchange == [method |-> method, url |-> url,
                     kwargs |-> RequestKwargs(obj, kwargs), resp |-> resp]
    IN  IF ~ok(resp)
        THEN [raised |-> TRUE, exc |-> HTTPError(resp), body |-> PyNone,
              http |-> <<exchange>>, obj |-> obj]
        ELSE [raised |-> FALSE, exc |-> Return(PyNone),
              body |-> IF resp.decodable THEN resp.value ELSE PyNone,
              http |-> <<exchange>>, obj |-> obj]

Url(obj, path) == PyFormat(obj.endpoint) \o "/" \o path

\* _delete returning whether a body was decoded.
_delete_ReturnsDecoded(obj, path, kwargs, resp) ==
    LET r == _request(obj, Url(obj, path), "DELETE", kwargs, resp)
    IN  [outcome |-> IF r.raised THEN r.exc ELSE Return(PyBool(~IsNone(r.body))),
         http |-> r.http, obj |-> r.obj]

_delete(obj, path, kwargs, resp) ==
    LET r == _request(obj, Url(obj, path), "DELETE", kwargs, resp)
    IN  [outcome |-> IF r.raised THEN r.exc ELSE Return(PyBool(TRUE)),
         http |-> r.http, obj |-> r.obj]

_get(obj, path, kwargs, resp) ==
    LET r == _request(obj, Url(obj, path), "GET", kwargs, resp)
    IN  [outcome |-> IF r.raised THEN r.exc
                     ELSE Return(PyStr(json_dumps(r.body, 2, 0))),
         http |-> r.http, obj |-> r.obj]

_post(obj, path, kwargs, resp) ==
    LET r == _request(obj, Url(obj, path), "POST", kwargs, resp)
    IN  [outcome |-> IF r.raised THEN r.exc
                     ELSE Return(PyStr(json_dumps(r.body, 2, 0))),
         http |-> r.http, obj |-> r.obj]

_put(obj, path, kwargs, resp) ==
    LET r == _request(obj, Url(obj, path), "PUT", kwargs, resp)
    IN  [outcome |-> IF r.raised THEN r.exc
                     ELSE Return(PyStr(json_dumps(r.body, 2, 0))),
         http |-> r.http, obj |-> r.obj]

(***************************************************************************)
(* cachetclient/cachet.py                                                  *)
(***************************************************************************)
\* A call that ends before any request is made.
NoHttp(outcome) == [outcome |-> outcome, http |-> <<>>]

\* Keyword arguments of a verb helper: none, or data=<dict>.
NoKw == [k \in {} |-> EmptyDict]

DataKw(d) == [k \in {"data"} |-> d]

\* The **kwargs left once the named parameters are bound.
Rest(kw, named) == [k \in DOMAIN kw \ named |-> kw[k]]

\* Python rejects a call whose arguments do not bind to the signature
\* (a parameter without default left out, or a keyword the signature does
\* not take) before the function body runs; the wrapper the decorator
\* package builds has the signature of the wrapped method.
TypeError == Raise("TypeError", "arguments do not match the signature")

\* cachetclient.exceptions.UnimplementedException
UnimplementedException == Raise("UnimplementedException", "")

\* api_token_required with the check left out.
api_token_required_Unchecked(obj, result) == result

\* @api_token_required around a method whose body yields result.
api_token_required(obj, result) ==
    IF IsNone(obj.api_token)
    THEN NoHttp(Raise("AttributeError", "Parameter api_token is required."))
    ELSE result

RECURSIVE FirstMissing(_, _, _)
\* The loop of check_required_args from position i on: the first required
\* argument that args lacks, or "" when there is none.
FirstMissing(required_args, args, i) ==
    IF i > Len(required_args) THEN ""
    ELSE IF required_args[i] \notin DOMAIN args THEN required_args[i]
    ELSE FirstMissing(required_args, args, i + 1)

\* check_required_args with a loop that stops one argument early.
check_required_args_StopsEarly(required_args, args, result) ==
    LET arg == FirstMissing(SubSeq(required_args, 1, Len(required_args) - 1), args, 1)
    IN  IF arg # ""
        THEN NoHttp(Raise("KeyError", "Required argument: " \o arg))
        ELSE result

\* check_required_args followed by the rest of the method (result).
check_required_args(required_args, args, result) ==
    LET arg == FirstMissing(required_args, args, 1)
    IN  IF arg # ""
        THEN NoHttp(Raise("KeyError", "Required argument: " \o arg))
        ELSE result

\* class Cachet: every method unimplemented.
Cachet_delete(obj, kw, resp) == NoHttp(UnimplementedException)

Cachet_get(obj, kw, resp) == NoHttp(UnimplementedException)

Cachet_post(obj, kw, resp) == NoHttp(UnimplementedException)

\* Cachet.put with a body of "pass".
Cachet_put_Pass(obj, kw, resp) == NoHttp(Return(PyNone))

Cachet_put(obj, kw, resp) == NoHttp(UnimplementedException)

\* class Ping
Ping_get(obj, kw, resp) == _get(obj, "ping", NoKw, resp)

\* class Version
Version_get(obj, kw, resp) == _get(obj, "version", NoKw, resp)

\* class Components
Components_delete(obj, kw, resp) ==
    IF DOMAIN kw # {"id"} THEN NoHttp(TypeError)
    ELSE api_token_required(obj,
            _delete(obj, "components/" \o PyFormat(kw["id"]), NoKw, resp))

\* Components.get testing "if id:" in place of "if id is not None:".
Components_get_Truthy(obj, kw, resp) ==
    LET id     == DictGet(kw, "id", PyNone)
        kwargs == Rest(kw, {"id"})
    IN  IF ~IsNone(id) /\ id # PyInt(0)
        THEN _get(obj, "components/" \o PyFormat(id), NoKw, resp)
        ELSE _get(obj, "components", DataKw(kwargs), resp)

Components_get(obj, kw, resp) ==
    LET id     == DictGet(kw, "id", PyNone)
        kwargs == Rest(kw, {"id"})
    IN  IF ~IsNone(id)
        THEN _get(obj, "components/" \o PyFormat(id), NoKw, resp)
        ELSE _get(obj, "components", DataKw(kwargs), resp)

Components_post(obj, kw, resp) ==
    LET kwargs == SetDefault(kw, "enabled", DictGet(kw, "enabled", PyBool(TRUE)))
    IN  api_token_required(obj,
            check_required_args(<<"name", "status", "enabled">>, kwargs,
                _post(obj, "components", DataKw(kwargs), resp)))

Components_put(obj, kw, resp) ==
    api_token_required(obj,
        check_required_args(<<"id">>, kw,
            _put(obj, "components/" \o PyFormat(kw["id"]), DataKw(kw), resp)))

\* class Groups
Groups_delete(obj, kw, resp) ==
    IF DOMAIN kw # {"id"} THEN NoHttp(TypeError)
    ELSE api_token_required(obj,
            _delete(obj, "components/groups/" \o PyFormat(kw["id"]), NoKw, resp))

Groups_get(obj, kw, resp) ==
    LET id     == DictGet(kw, "id", PyNone)
        kwargs == Rest(kw, {"id"})
    IN  IF ~IsNone(id)
        THEN _get(obj, "components/groups/" \o PyFormat(id), DataKw(kwargs), resp)
        ELSE _get(obj, "components/groups", DataKw(kwargs), resp)

Groups_post(obj, kw, resp) ==
    api_token_required(obj,
        check_required_args(<<"name">>, kw,
            _post(obj, "components/groups", DataKw(kw), resp)))

Groups_put(obj, kw, resp) ==
    api_token_required(obj,
        check_required_args(<<"id">>, kw,
            _put(obj, "components/groups/" \o PyFormat(kw["id"]), DataKw(kw), resp)))

\* class Incidents
Incidents_delete(obj, kw, resp) ==
    IF DOMAIN kw # {"id"} THEN NoHttp(TypeError)
    ELSE api_token_required(obj,
            _delete(obj, "incidents/" \o PyFormat(kw["id"]), NoKw, resp))

Incidents_get(obj, kw, resp) ==
    LET id     == DictGet(kw, "id", PyNone)
        kwargs == Rest(kw, {"id"})
    IN  IF ~IsNone(id)
        THEN _get(obj, "incidents/" \o PyFormat(id), DataKw(kwargs), resp)
        ELSE _get(obj, "incidents", DataKw(kwargs), resp)

Incidents_post(obj, kw, resp) ==
    LET k1     == SetDefault(kw, "visible", DictGet(kw, "visible", PyBool(TRUE)))
        kwargs == SetDefault(k1, "notify", DictGet(k1, "notify", PyBool(FALSE)))
    IN  api_token_required(obj,
            check_required_args(<<"name", "message", "status", "visible", "notify">>,
                kwargs,
                _post(obj, "incidents", DataKw(kwargs), resp)))

\* Incidents.put applying the defaults of Incidents.post.
Incidents_put_Defaults(obj, kw, resp) ==
    LET k1     == SetDefault(kw, "visible", DictGet(kw, "visible", PyBool(TRUE)))
        kwargs == SetDefault(k1, "notify", DictGet(k1, "notify", PyBool(FALSE)))
    IN  api_token_required(obj,
            check_required_args(<<"id">>, kwargs,
                _put(obj, "incidents/" \o PyFormat(kwargs["id"]), DataKw(kwargs), resp)))

Incidents_put(obj, kw, resp) ==
    api_token_required(obj,
        check_required_args(<<"id">>, kw,
            _put(obj, "incidents/" \o PyFormat(kw["id"]), DataKw(kw), resp)))

\* class Metrics
Metrics_delete(obj, kw, resp) ==
    IF DOMAIN kw # {"id"} THEN NoHttp(TypeError)
    ELSE api_token_required(obj,
            _delete(obj, "metrics/" \o PyFormat(kw["id"]), NoKw, resp))

Metrics_get(obj, kw, resp) ==
    LET id     == DictGet(kw, "id", PyNone)
        kwargs == Rest(kw, {"id"})
    IN  IF ~IsNone(id)
        THEN _get(obj, "metrics/" \o PyFormat(id), DataKw(kwargs), resp)
        ELSE _get(obj, "metrics", DataKw(kwargs), resp)

Metrics_post(obj, kw, resp) ==
    LET kwargs == SetDefault(kw, "default_value",
                             DictGet(kw, "default_value", PyInt(0)))
    IN  api_token_required(obj,
            check_required_args(<<"name", "suffix", "description", "default_value">>,
                kwargs,
                _post(obj, "metrics", DataKw(kwargs), resp)))

\* class Points
Points_delete(obj, kw, resp) ==
    IF DOMAIN kw # {"metric_id", "point_id"} THEN NoHttp(TypeError)
    ELSE api_token_required(obj,
            _delete(obj, "metrics/" \o PyFormat(kw["metric_id"]) \o "/points/"
                             \o PyFormat(kw["point_id"]), NoKw, resp))

Points_get(obj, kw, resp) ==
    LET metric_id == DictGet(kw, "metric_id", PyNone)
        kwargs    == Rest(kw, {"metric_id"})
    IN  IF IsNone(metric_id)
        THEN NoHttp(Raise("AttributeError",
                          "metric_id is required to get metric points."))
        ELSE _get(obj, "metrics/" \o PyFormat(metric_id) \o "/points",
                  DataKw(kwargs), resp)

\* Points.post checking the arguments ahead of the token.
Points_post_ArgumentsFirst(obj, kw, resp) ==
    check_required_args(<<"id", "value">>, kw,
        api_token_required(obj,
            _post(obj, "metrics/" \o PyFormat(kw["id"]) \o "/points", DataKw(kw), resp)))

Points_post(obj, kw, resp) ==
    api_token_required(obj,
        check_required_args(<<"id", "value">>, kw,
            _post(obj, "metrics/" \o PyFormat(kw["id"]) \o "/points", DataKw(kw), resp)))

\* class Subscribers
Subscribers_delete(obj, kw, resp) ==
    IF DOMAIN kw # {"id"} THEN NoHttp(TypeError)
    ELSE api_token_required(obj,
            _delete(obj, "subscribers/" \o PyFormat(kw["id"]), NoKw, resp))

Subscribers_get(obj, kw, resp) == _get(obj, "subscribers", DataKw(kw), resp)

Subscribers_post(obj, kw, resp) ==
    api_token_required(obj,
        check_required_args(<<"email">>, kw,
            _post(obj, "subscribers", DataKw(kw), resp)))

Classes ==
    {"Ping", "Version", "Components", "Groups", "Incidents", "Metrics", "Points",
     "Subscribers"}

\* Method resolution: the class's own method, else the one inherited from Cachet.
Invoke(op, obj, kw, resp) ==
    LET c == obj.cls
    IN  CASE op = "get" ->
                (CASE c = "Ping"        -> Ping_get(obj, kw, resp)
                   [] c = "Version"     -> Version_get(obj, kw, resp)
                   [] c = "Components"  -> Components_get(obj, kw, resp)
                   [] c = "Groups"      -> Groups_get(obj, kw, resp)
                   [] c = "Incidents"   -> Incidents_get(obj, kw, resp)
                   [] c = "Metrics"     -> Metrics_get(obj, kw, resp)
                   [] c = "Points"      -> Points_get(obj, kw, resp)
                   [] c = "Subscribers" -> Subscribers_get(obj, kw, resp)
                   [] OTHER             -> Cachet_get(obj, kw, resp))
          [] op = "post" ->
                (CASE c = "Components"  -> Components_post(obj, kw, resp)
                   [] c = "Groups"      -> Groups_post(obj, kw, resp)
                   [] c = "Incidents"   -> Incidents_post(obj, kw, resp)
                   [] c = "Metrics"     -> Metrics_post(obj, kw, resp)
                   [] c = "Points"      -> Points_post(obj, kw, resp)
                   [] c = "Subscribers" -> Subscribers_post(obj, kw, resp)
                   [] OTHER             -> Cachet_post(obj, kw, resp))
          [] op = "put" ->
                (CASE c = "Components"  -> Components_put(obj, kw, resp)
                   [] c = "Groups"      -> Groups_put(obj, kw, resp)
                   [] c = "Incidents"   -> Incidents_put(obj, kw, resp)
                   [] OTHER             -> Cachet_put(obj, kw, resp))
          [] op = "delete" ->
                (CASE c = "Components"  -> Components_delete(obj, kw, resp)
                   [] c = "Groups"      -> Groups_delete(obj, kw, resp)
                   [] c = "Incidents"   -> Incidents_delete(obj, kw, resp)
                   [] c = "Metrics"     -> Metrics_delete(obj, kw, resp)
                   [] c = "Points"      -> Points_delete(obj, kw, resp)
                   [] c = "Subscribers" -> Subscribers_delete(obj, kw, resp)
                   [] OTHER             -> Cachet_delete(obj, kw, resp))

(***************************************************************************)
(* Callers' inputs.                                                        *)
(***************************************************************************)
Ids == {PyInt(i) : i \in 0..MaxId}

\* The values a caller passes for a keyword.
ValDom(k) ==
    CASE k \in {"id", "metric_id"} -> Ids \cup {PyNone}
      [] k = "point_id"            -> Ids
      [] k = "endpoint"            -> {PyStr("http://host/api/v1")}
      [] k = "api_token"           -> {PyNone, PyStr(""), PyStr("t")}
      [] k = "timeout"             -> {PyInt(5)}
      [] k = "verify"              -> {PyBool(FALSE)}
      [] k \in {"status", "value", "default_value", "page"} -> {PyInt(1)}
      [] k \in {"enabled", "visible"} -> {PyBool(FALSE)}
      [] k = "notify"              -> {PyBool(TRUE)}
      [] OTHER                     -> {PyStr("X")}

RECURSIVE Dicts(_)
\* Every keyword dictionary over a subset of keys.
Dicts(keys) ==
    IF keys = {} THEN {EmptyDict}
    ELSE LET k    == CHOOSE x \in keys : TRUE
             rest == Dicts(keys \ {k})
         IN  rest \cup {(k :> v) @@ d : v \in ValDom(k), d \in rest}

ConfigKeys == {"endpoint", "api_token", "timeout", "verify"}

\* The keywords tried on a call of op on an object of class c.
CallKeys(c, op) ==
    CASE op = "get" ->
            IF c = "Points" THEN {"metric_id", "id", "page"} ELSE {"id", "page"}
      [] op = "post" ->
            (CASE c = "Components"  -> {"name", "status", "enabled"}
               [] c = "Groups"      -> {"name", "page"}
               [] c = "Incidents"   -> {"name", "message", "status", "visible", "notify"}
               [] c = "Metrics"     -> {"name", "suffix", "description", "default_value"}
               [] c = "Points"      -> {"id", "value"}
               [] c = "Subscribers" -> {"email", "page"}
               [] OTHER             -> {"name"})
      [] op = "put" -> {"id", "name"}
      [] op = "delete" ->
            IF c = "Points" THEN {"metric_id", "point_id"} ELSE {"id", "page"}

NoCall == [op |-> "", kwargs |-> EmptyDict, outcome |-> Return(PyNone)]

(***************************************************************************)
(* The state machine.                                                      *)
(***************************************************************************)
Init ==
    /\ self = NoInstance
    /\ call = NoCall
    /\ http = <<>>

\* X(**kwargs) for a resource class X while no object is held.
Construct ==
    /\ self = NoInstance
    /\ \E c \in Classes, kwargs \in Dicts(ConfigKeys) :
          LET r == CachetClient__init__(c, kwargs)
          IN  /\ self' = r.obj
              /\ call' = [op |-> "__init__", kwargs |-> kwargs, outcome |-> r.outcome]
              /\ http' = <<>>

\* The object is dropped.
Discard ==
    /\ self # NoInstance
    /\ self' = NoInstance
    /\ call' = NoCall
    /\ http' = <<>>

\* The object after a call with result r: as the transport left it when the
\* call reached the transport, and as it was when the call raised before.
ObjAfter(obj, r) == IF "obj" \in DOMAIN r THEN r.obj ELSE obj

\* One call of a public method, from entry to return or raise.
Call(op) ==
    /\ self # NoInstance
    /\ \E kw \in Dicts(CallKeys(self.cls, op)), resp \in Responses :
          LET r == Invoke(op, self, kw, resp)
          IN  /\ call' = [op |-> op, kwargs |-> kw, outcome |-> r.outcome]
              /\ http' = r.http
              /\ self' = ObjAfter(self, r)

Get == Call("get")

Post == Call("post")

Put == Call("put")

Delete == Call("delete")

Next == Construct \/ Discard \/ Get \/ Post \/ Put \/ Delete

Spec == Init /\ [][Next]_vars

(***************************************************************************)
(* Properties.                                                             *)
(***************************************************************************)
Mutating == {"post", "put", "delete"}

HasToken == self # NoInstance /\ ~IsNone(self.api_token)

NoToken == self # NoInstance /\ IsNone(self.api_token)

AuthRequired(o) ==
    o.kind = "raise" /\ o.exc = "AttributeError"
        /\ o.msg = "Parameter api_token is required."

MissingArgument(o, keys) ==
    o.kind = "raise" /\ o.exc = "KeyError"
        /\ o.msg \in {"Required argument: " \o k : k \in keys}

\* The classes with a post required-field set, and the set.
PostClasses == {"Components", "Groups", "Incidents", "Metrics", "Points", "Subscribers"}

PostRequired(c) ==
    CASE c = "Components"  -> {"name", "status", "enabled"}
      [] c = "Groups"      -> {"name"}
      [] c = "Incidents"   -> {"name", "message", "status", "visible", "notify"}
      [] c = "Metrics"     -> {"name", "suffix", "description", "default_value"}
      [] c = "Points"      -> {"id", "value"}
      [] c = "Subscribers" -> {"email"}

\* The fields post fills in when the caller leaves them out.
PostDefaulted(c) ==
    CASE c = "Components" -> {"enabled"}
      [] c = "Incidents"  -> {"visible", "notify"}
      [] c = "Metrics"    -> {"default_value"}
      [] OTHER            -> {}

\* The operations each class implements behind the token check.
TokenGated(c) ==
    CASE c \in {"Components", "Groups", "Incidents"} -> {"post", "put", "delete"}
      [] c \in {"Metrics", "Points", "Subscribers"}  -> {"post", "delete"}
      [] OTHER                                        -> {}

\* The arguments of the call bind to the signature of the method.
Binds ==
    call.op = "delete" =>
        DOMAIN call.kwargs =
            (IF self.cls = "Points" THEN {"metric_id", "point_id"} ELSE {"id"})

\* C1 as stated: on an instance without api_token every post, put and delete,
\* on every resource and with any arguments, fails with AuthRequired and
\* issues no HTTP request.
C1_EveryMutatingOperation ==
    (NoToken /\ call.op \in Mutating) =>
        (AuthRequired(call.outcome) /\ http = <<>>)

\* C1 amended: on an instance without api_token, every post, put and delete
\* issues no HTTP request; when the resource implements the operation and the
\* arguments bind to its signature the call fails with AuthRequired.
C1_AuthRequiredBeforeRequest ==
    (NoToken /\ call.op \in Mutating) =>
        /\ http = <<>>
        /\ (call.op \in TokenGated(self.cls) /\ Binds) => AuthRequired(call.outcome)

C1_Witness ==
    /\ NoToken /\ self.cls = "Incidents" /\ call.op = "post"
    /\ DOMAIN call.kwargs = {"name", "message", "status"}
    /\ AuthRequired(call.outcome) /\ http = <<>>

\* C2: with a token, post on a resource with required set R fails with
\* MissingArgument and no HTTP request when a key of R is absent after the
\* defaults, and otherwise dispatches exactly one POST to the resource's path.
C2_PostRequiredFields ==
    (HasToken /\ call.op = "post" /\ self.cls \in PostClasses) =>
        LET R       == PostRequired(self.cls)
            present == DOMAIN call.kwargs \cup PostDefaulted(self.cls)
            path    == CASE self.cls = "Components"  -> "components"
                         [] self.cls = "Groups"      -> "components/groups"
                         [] self.cls = "Incidents"   -> "incidents"
                         [] self.cls = "Metrics"     -> "metrics"
                         [] self.cls = "Points"      ->
                               "metrics/" \o PyFormat(call.kwargs["id"]) \o "/points"
                         [] self.cls = "Subscribers" -> "subscribers"
        IN  IF ~(R \subseteq present)
            THEN MissingArgument(call.outcome, R \ present) /\ http = <<>>
            ELSE /\ Len(http) = 1
                 /\ http[1].method = "POST"
                 /\ http[1].url = self.endpoint.s \o "/" \o path

C2_Witness ==
    /\ HasToken /\ self.cls = "Points" /\ call.op = "post"
    /\ DOMAIN call.kwargs = {"id"}
    /\ MissingArgument(call.outcome, {"value"}) /\ http = <<>>

\* C3: defaults are applied before the required-argument check: a defaulted
\* field never causes MissingArgument, and the body dispatched carries
\* enabled=true (Components), visible=true and notify=false (Incidents),
\* default_value=0 (Metrics) for the fields the caller left out.
C3_DefaultsBeforeCheck ==
    (HasToken /\ call.op = "post" /\ PostDefaulted(self.cls) # {}) =>
        LET given == DOMAIN call.kwargs
            dflt  == [k \in {"enabled", "visible", "notify", "default_value"} |->
                        CASE k = "enabled"       -> "true"
                          [] k = "visible"       -> "true"
                          [] k = "notify"        -> "false"
                          [] k = "default_value" -> "0"]
        IN  /\ ~MissingArgument(call.outcome, PostDefaulted(self.cls))
            /\ (PostRequired(self.cls) \ PostDefaulted(self.cls)) \subseteq given
                  => Len(http) = 1
            /\ Len(http) = 1 =>
                  /\ "data" \in DOMAIN http[1].kwargs
                  /\ \A k \in PostDefaulted(self.cls) :
                        /\ k \in DOMAIN http[1].kwargs["data"][1]
                        /\ http[1].kwargs["data"][1][k] =
                              IF k \in given THEN JsonScalar(call.kwargs[k])
                              ELSE dflt[k]

C3_Witness ==
    /\ HasToken /\ self.cls = "Incidents" /\ call.op = "post"
    /\ DOMAIN call.kwargs = {"name", "message", "status"}
    /\ Len(http) = 1
    /\ http[1].kwargs["data"][1]["visible"] = "true"
    /\ http[1].kwargs["data"][1]["notify"] = "false"

\* The collection path of the resources whose get takes an optional id.
CollectionPath(c) ==
    CASE c = "Components" -> "components"
      [] c = "Groups"     -> "components/groups"
      [] c = "Incidents"  -> "incidents"
      [] c = "Metrics"    -> "metrics"

\* The identifier a get was called with (None when left out).
GetId == IF self.cls = "Points" THEN DictGet(call.kwargs, "metric_id", PyNone)
         ELSE DictGet(call.kwargs, "id", PyNone)

\* C4 as stated: on Components, Groups, Incidents, Metrics and Points a get
\* with an id requests the item path under the endpoint and a get without an
\* id requests the bare collection path of the resource.
C4_GetPathFiveResources ==
    (self # NoInstance /\ call.op = "get"
        /\ self.cls \in {"Components", "Groups", "Incidents", "Metrics", "Points"}) =>
        /\ Len(http) = 1
        /\ http[1].method = "GET"
        /\ http[1].url = self.endpoint.s \o "/" \o
              (IF self.cls = "Points"
               THEN (IF IsNone(GetId) THEN "metrics/points"
                     ELSE "metrics/" \o PyFormat(GetId) \o "/points")
               ELSE (IF IsNone(GetId) THEN CollectionPath(self.cls)
                     ELSE CollectionPath(self.cls) \o "/" \o PyFormat(GetId)))

\* C4 amended: on Components, Groups, Incidents and Metrics a get with an id
\* requests <resource>/<id> and a get without an id requests the bare
\* collection path; on Points a get with a metric_id requests
\* metrics/<metric_id>/points and a get without one fails without a request;
\* the URL requested is always endpoint + "/" + path.
C4_GetPath ==
    (self # NoInstance /\ call.op = "get"
        /\ self.cls \in {"Components", "Groups", "Incidents", "Metrics", "Points"}) =>
        IF self.cls = "Points" /\ IsNone(GetId)
        THEN http = <<>> /\ call.outcome.kind = "raise"
        ELSE /\ Len(http) = 1
             /\ http[1].method = "GET"
             /\ http[1].url = self.endpoint.s \o "/" \o
                   (IF self.cls = "Points"
                    THEN "metrics/" \o PyFormat(GetId) \o "/points"
                    ELSE (IF IsNone(GetId) THEN CollectionPath(self.cls)
                          ELSE CollectionPath(self.cls) \o "/" \o PyFormat(GetId)))

C4_Witness ==
    /\ self # NoInstance /\ self.cls = "Components" /\ call.op = "get"
    /\ "id" \in DOMAIN call.kwargs /\ call.kwargs["id"] = PyInt(0)
    /\ Len(http) = 1
    /\ http[1].url = "http://host/api/v1/components/0"

\* C5: a collection listing (a get without an identifier on a resource that
\* has a collection) forwards the extra keyword arguments of the call as
\* query-string parameters of the GET request, not as its body.
C5_ListingQueryParameters ==
    (self # NoInstance /\ call.op = "get" /\ Len(http) = 1
        /\ self.cls \notin {"Ping", "Version", "Points"}
        /\ "id" \notin DOMAIN call.kwargs /\ call.kwargs # EmptyDict) =>
        /\ "data" \notin DOMAIN http[1].kwargs
        /\ "params" \in DOMAIN http[1].kwargs
        /\ http[1].kwargs["params"] = <<call.kwargs>>

\* C6: with a token, a delete that reaches the remote side returns True when
\* the response status is a success, whatever the response body (empty or
\* not JSON included), and raises HTTPError, returning nothing, otherwise.
C6_DeleteReturnsTrue ==
    (HasToken /\ call.op = "delete" /\ call.op \in TokenGated(self.cls) /\ Binds) =>
        /\ Len(http) = 1
        /\ http[1].method = "DELETE"
        /\ http[1].resp.status_code < 400 => call.outcome = Return(PyBool(TRUE))
        /\ http[1].resp.status_code >= 400 =>
              /\ call.outcome.kind = "raise"
              /\ call.outcome.exc = "HTTPError"
              /\ call.outcome.status = http[1].resp.status_code
              /\ call.outcome.msg = http[1].resp.text

C6_Witness ==
    /\ HasToken /\ call.op = "delete" /\ self.cls = "Subscribers"
    /\ Len(http) = 1
    /\ http[1].resp.status_code = 200 /\ http[1].resp.text = ""
    /\ call.outcome = Return(PyBool(TRUE))

\* C7: on HTTP success get, post and put return a string, the decoded body
\* encoded as JSON with a two-space indent; a body that does not decode does
\* not raise and gives the string "null".
C7_PrettyPrintedJson ==
    (self # NoInstance /\ call.op \in {"get", "post", "put"} /\ Len(http) = 1
        /\ http[1].resp.status_code < 400) =>
        /\ call.outcome.kind = "return"
        /\ call.outcome.value.t = "str"
        /\ ~http[1].resp.decodable => call.outcome.value.s = "null"
        /\ http[1].resp.text = "[]" => call.outcome.value.s = "[]"
        /\ http[1].resp.text = "{\"data\":{\"id\":42,\"name\":\"X\"}}" =>
              call.outcome.value.s =
                 "{\n  \"data\": {\n    \"id\": 42,\n    \"name\": \"X\"\n  }\n}"

C7_Witness ==
    /\ self # NoInstance /\ call.op = "put" /\ Len(http) = 1
    /\ http[1].resp.status_code = 200 /\ http[1].resp.text = ""
    /\ call.outcome = Return(PyStr("null"))

\* C8: constructing any resource without endpoint fails with the
\* configuration error, leaves no instance and makes no request; with
\* endpoint it succeeds and api_token, timeout and verify are None unless
\* supplied.
C8_Construction ==
    call.op = "__init__" =>
        /\ http = <<>>
        /\ IF "endpoint" \notin DOMAIN call.kwargs
           THEN /\ call.outcome.kind = "raise"
                /\ call.outcome.exc = "KeyError"
                /\ call.outcome.msg = "Cachet API endpoint is required"
                /\ self = NoInstance
           ELSE /\ call.outcome.kind = "return"
                /\ self.cls \in Classes
                /\ self.endpoint = call.kwargs["endpoint"]
                /\ \A k \in {"api_token", "timeout", "verify"} :
                      self[k] = IF k \in DOMAIN call.kwargs THEN call.kwargs[k]
                                ELSE PyNone

C8_Witness ==
    /\ call.op = "__init__"
    /\ DOMAIN call.kwargs = {"api_token", "timeout"}
    /\ call.outcome.exc = "KeyError"
    /\ self = NoInstance /\ http = <<>>

\* The operations the resource table lists for each class.
Supported(c) ==
    CASE c \in {"Ping", "Version"}                   -> {"get"}
      [] c \in {"Components", "Groups", "Incidents"} -> {"get", "post", "put", "delete"}
      [] c \in {"Metrics", "Points", "Subscribers"}  -> {"get", "post", "delete"}

\* C9: an operation a resource does not override (post, put, delete on Ping
\* and Version; put on Metrics, Points and Subscribers) fails with
\* Unimplemented and issues no HTTP request; a call succeeds only on an
\* operation the resource table lists for its resource.
C9_Unimplemented ==
    (self # NoInstance /\ call.op \in {"get", "post", "put", "delete"}) =>
        /\ ( \/ self.cls \in {"Ping", "Version"} /\ call.op \in {"post", "put", "delete"}
             \/ self.cls \in {"Metrics", "Points", "Subscribers"} /\ call.op = "put" )
              => /\ call.outcome.kind = "raise"
                 /\ call.outcome.exc = "UnimplementedException"
                 /\ http = <<>>
        /\ call.outcome.kind = "return" => call.op \in Supported(self.cls)

C9_Witness ==
    /\ HasToken /\ self.cls = "Metrics" /\ call.op = "put"
    /\ "id" \in DOMAIN call.kwargs
    /\ call.outcome.exc = "UnimplementedException" /\ http = <<>>

\* C10: every HTTP request carries User-Agent, Accept: application/json and
\* Content-Type: application/json, and carries X-Cachet-Token, with the
\* configured token as value, exactly when a token is configured.
C10_Headers ==
    \A i \in 1..Len(http) :
        LET headers == http[i].kwargs["headers"][1]
        IN  /\ {"User-Agent", "Accept", "Content-Type"} \subseteq DOMAIN headers
            /\ headers["User-Agent"] = "python-cachetclient"
            /\ headers["Accept"] = "application/json"
            /\ headers["Content-Type"] = "application/json"
            /\ ("X-Cachet-Token" \in DOMAIN headers) <=> ~IsNone(self.api_token)
            /\ "X-Cachet-Token" \in DOMAIN headers =>
                  headers["X-Cachet-Token"] = self.api_token.s

C10_Witness ==
    /\ HasToken /\ self.api_token = PyStr("t") /\ call.op = "get"
    /\ Len(http) = 1
    /\ http[1].kwargs["headers"][1]["X-Cachet-Token"] = "t"

Operations == {"get", "post", "put", "delete"}

\* C11: a get, post, put or delete, whether it succeeds or fails, leaves the
\* configuration of the instance (endpoint, api_token, timeout, verify) as
\* it was, so it stays as constructed; and the outcome of a call does not
\* depend on the call before it: the same call made again sends the same
\* request and, given the same response, ends the same way.
C11_ConfigurationUnchanged ==
    [][ (self # NoInstance /\ call'.op \in Operations) =>
          /\ self' = self
          /\ (call.op = call'.op /\ call.kwargs = call'.kwargs) =>
                /\ Len(http') = Len(http)
                /\ (Len(http) = 1 /\ http'[1].resp = http[1].resp) =>
                      (http' = http /\ call'.outcome = call.outcome) ]_vars

C11_Witness ==
    /\ self # NoInstance /\ self.cls = "Incidents"
    /\ self.endpoint = PyStr("http://host/api/v1")
    /\ self.api_token = PyStr("t")
    /\ self.timeout = PyNone /\ self.verify = PyBool(FALSE)
    /\ call.op = "put" /\ call.outcome.exc = "HTTPError" /\ Len(http) = 1

\* C12: Points get without a metric_id fails with MissingArgument, the error
\* kind a missing required post or put field produces, and issues no HTTP
\* request, with or without a token; with a metric_id it issues one GET to
\* metrics/<metric_id>/points.
C12_PointsGetMissingArgument ==
    (self # NoInstance /\ self.cls = "Points" /\ call.op = "get") =>
        IF IsNone(GetId)
        THEN /\ http = <<>>
             /\ call.outcome.kind = "raise"
             /\ call.outcome.exc = "KeyError"
        ELSE /\ Len(http) = 1
             /\ http[1].method = "GET"
             /\ http[1].url = self.endpoint.s \o "/metrics/" \o PyFormat(GetId)
                                  \o "/points"

\* C13: with a token, put on Components, Groups and Incidents fails with
\* MissingArgument and no HTTP request when id is absent, and otherwise
\* issues exactly one PUT to <resource path>/<id> whose JSON body carries the
\* caller's arguments and nothing else (no default is applied).
C13_PutRequiresId ==
    (HasToken /\ call.op = "put"
        /\ self.cls \in {"Components", "Groups", "Incidents"}) =>
        IF "id" \notin DOMAIN call.kwargs
        THEN MissingArgument(call.outcome, {"id"}) /\ http = <<>>
        ELSE /\ Len(http) = 1
             /\ http[1].method = "PUT"
             /\ http[1].url = self.endpoint.s \o "/" \o CollectionPath(self.cls)
                                  \o "/" \o PyFormat(call.kwargs["id"])
             /\ "data" \in DOMAIN http[1].kwargs
             /\ DOMAIN http[1].kwargs["data"][1] = DOMAIN call.kwargs
             /\ \A k \in DOMAIN call.kwargs :
                   http[1].kwargs["data"][1][k] = JsonScalar(call.kwargs[k])

C13_Witness ==
    /\ HasToken /\ self.cls = "Incidents" /\ call.op = "put"
    /\ DOMAIN call.kwargs = {"id", "name"} /\ call.kwargs["id"] = PyInt(1)
    /\ Len(http) = 1
    /\ http[1].method = "PUT"
    /\ http[1].url = "http://host/api/v1/incidents/1"
    /\ http[1].kwargs["data"][1] = [id |-> "1", name |-> "\"X\""]

\* The fields a token-gated operation requires of the caller once the
\* defaults are applied.
RequiredOfCaller(c, op) ==
    CASE op = "post" -> PostRequired(c) \ PostDefaulted(c)
      [] op = "put"  -> {"id"}
      [] OTHER       -> {}

====
